---- MODULE Spec2Model ----
(***************************************************************************)
(* Model of src/src/input.rs: the Input wrapper over the native            *)
(* ISteamInput interface and the three callback records decoded from       *)
(* native buffers.                                                         *)
(*                                                                         *)
(* The state is the record of the last wrapper call: which operation ran,  *)
(* with which arguments, which native entry points it invoked (in order,   *)
(* with the arguments handed over and what the native layer answered),     *)
(* whether it returned or panicked, and what it returned.  The native      *)
(* layer is the environment: every answer it can give is an input of the   *)
(* action, drawn from a small set.                                         *)
(***************************************************************************)
EXTENDS Integers, Sequences, FiniteSets, TLC

\* ---------------------------------------------------------------- bounds
\* sys::STEAM_INPUT_MAX_COUNT (16 in the SDK headers), scaled down: the
\* wrapper only compares against it and allocates that many slots.
STEAM_INPUT_MAX_COUNT == 3
\* sys::STEAM_INPUT_MAX_ORIGINS (8 in the SDK headers), scaled down.
STEAM_INPUT_MAX_ORIGINS == 2
\* device / action / action-set handles are 1..MaxHandle; 0 is "no handle"
MaxHandle == 2
\* bytes of a &str are 0..MaxByte (0 is the nul byte), length <= MaxStrLen
MaxByte == 2
MaxStrLen == 2
\* origins are 1..MaxOrigin
MaxOrigin == 2
\* gamepad slots are 0..MaxGamepadIndex
MaxGamepadIndex == 1
\* fields of a ConfigurationLoaded buffer: app ids and creator ids from 1,
\* revisions from 0
MaxAppId == 2
MaxCreator == 2
MaxRevision == 1

Max(a, b) == IF a >= b THEN a ELSE b

SeqsUpTo(S, n) == UNION {[1..k -> S] : k \in 0..n}

Handles == 1..MaxHandle
HandlesOrNone == 0..MaxHandle

VARIABLES
    op,          \* name of the last wrapper call ("none" before the first)
    arg,         \* its arguments
    outcome,     \* "none" | "returned" | "panicked"
    ret,         \* the value it returned
    native,      \* the native invocations it made, in order
    controllers, \* the caller's buffer handed to get_connected_controllers_slice
    raw,         \* the native callback buffer last delivered
    delivered    \* that buffer as the native layer delivered it

vars == <<op, arg, outcome, ret, native, controllers, raw, delivered>>

\* No callback buffer delivered yet.
NoBuffer == [id |-> 0, kind |-> "none", data |-> <<>>]

\* One native invocation: the entry point, what was passed, what it wrote
\* through an out-pointer, and what it returned.
Invocation(fn, a, out, result) ==
    [fn |-> fn, args |-> a, out |-> out, result |-> result]

\* ------------------------------------------------------------------ Vec
\* A Vec is its allocation (one slot per unit of capacity) and its length;
\* its elements are the first `len` slots.  A slot nobody wrote is Uninit.
Uninit == -1

\* vec![x; n]
vec_from_elem(x, n) == [mem |-> [i \in 1..n |-> x], len |-> n]

\* Vec::with_capacity(n)
with_capacity(n) == [mem |-> [i \in 1..n |-> Uninit], len |-> 0]

\* Vec::shrink_to(min_capacity): lowers the capacity towards
\* max(len, min_capacity); the length and the elements are untouched.
shrink_to(v, min_capacity) ==
    IF Len(v.mem) > Max(v.len, min_capacity)
    THEN [v EXCEPT !.mem = SubSeq(v.mem, 1, Max(v.len, min_capacity))]
    ELSE v

\* Faulty variant: the length becomes the whole capacity.
set_len_to_capacity(v, new_len) == [v EXCEPT !.len = Len(v.mem)]

\* Vec::set_len(new_len)
set_len(v, new_len) == [v EXCEPT !.len = new_len]

\* The elements of a Vec (a slot past the allocation reads as Uninit).
elements(v) ==
    [i \in 1..v.len |-> IF i <= Len(v.mem) THEN v.mem[i] ELSE Uninit]

\* A native entry point given an out-array writes its results to the front
\* of the array and leaves the rest alone.
NativeWrite(buf, written) ==
    [i \in 1..Max(Len(buf), Len(written)) |->
        IF i <= Len(written) THEN written[i] ELSE buf[i]]

\* ------------------------------------------- get_connected_controllers_slice
\* Faulty variant: the assertion on the buffer length is missing.
get_connected_controllers_slice_noassert(handles, written) ==
    [panicked |-> FALSE,
     native   |-> <<Invocation("GetConnectedControllers", Len(handles),
                               written, Len(written))>>,
     buf      |-> NativeWrite(handles, written),
     ret      |-> Len(written)]

\* Result of the call on buffer `handles` when the native layer, if asked,
\* reports the handles `written`.
get_connected_controllers_slice(handles, written) ==
    IF ~(Len(handles) >= STEAM_INPUT_MAX_COUNT)
    THEN [panicked |-> TRUE, native |-> <<>>, buf |-> handles, ret |-> <<>>]
    ELSE [panicked |-> FALSE,
          native   |-> <<Invocation("GetConnectedControllers", Len(handles),
                                    written, Len(written))>>,
          buf      |-> NativeWrite(handles, written),
          ret      |-> Len(written)]

\* Bookkeeping shared by every wrapper call: the call and its outcome are
\* recorded.  Access is single-threaded, so no wrapper call runs between
\* the delivery of a callback buffer and its decoding.
Finish(name, a, r) ==
    /\ op # "deliver"
    /\ op' = name
    /\ arg' = a
    /\ outcome' = IF r.panicked THEN "panicked" ELSE "returned"
    /\ ret' = r.ret
    /\ native' = r.native

\* No callback buffer is held once a wrapper call has run.
NoCallback ==
    /\ raw' = NoBuffer
    /\ delivered' = NoBuffer

\* A call that takes no caller buffer leaves none behind.
NoBuffers ==
    /\ controllers' = <<>>
    /\ NoCallback

\* A call that made the one native invocation `inv` and returned `value`.
Returned(inv, value) == [panicked |-> FALSE, native |-> <<inv>>, ret |-> value]

\* A call that panicked before reaching the native layer.
Panicked == [panicked |-> TRUE, native |-> <<>>, ret |-> <<>>]

GetConnectedControllersSlice ==
    \E len \in 0..(STEAM_INPUT_MAX_COUNT + 1), fill \in {0, MaxHandle + 1},
       written \in SeqsUpTo(Handles, STEAM_INPUT_MAX_COUNT) :
        LET handles == [i \in 1..len |-> fill]
            r == get_connected_controllers_slice(handles, written)
        IN /\ Finish("get_connected_controllers_slice", handles, r)
           /\ controllers' = r.buf
           /\ NoCallback

\* ------------------------------------------------- get_connected_controllers
get_connected_controllers(written) ==
    LET handles  == vec_from_elem(0, STEAM_INPUT_MAX_COUNT)
        r        == get_connected_controllers_slice(elements(handles), written)
        quantity == r.ret
        shrunk   == shrink_to([handles EXCEPT !.mem = r.buf], quantity)
    IN [panicked |-> r.panicked, native |-> r.native, ret |-> elements(shrunk)]

GetConnectedControllers ==
    \E written \in SeqsUpTo(Handles, STEAM_INPUT_MAX_COUNT) :
        /\ Finish("get_connected_controllers", <<>>,
                  get_connected_controllers(written))
        /\ NoBuffers

\* ------------------------------------------------------- plain forwards
\* `answer` is what the native entry point returns.
\* Faulty variant: a failed Init is tried a second time.
init_retrying(explicitly_call_run_frame, answer) ==
    LET inv == Invocation("Init", <<explicitly_call_run_frame>>, <<>>, answer)
    IN [panicked |-> FALSE,
        native   |-> IF answer THEN <<inv>> ELSE <<inv, inv>>,
        ret      |-> answer]

init(explicitly_call_run_frame, answer) ==
    Returned(Invocation("Init", <<explicitly_call_run_frame>>, <<>>, answer),
             answer)

InitCall ==
    \E explicitly_call_run_frame \in BOOLEAN, answer \in BOOLEAN :
        /\ Finish("init", <<explicitly_call_run_frame>>,
                  init(explicitly_call_run_frame, answer))
        /\ NoBuffers

run_frame == Returned(Invocation("RunFrame", <<FALSE>>, <<>>, <<>>), <<>>)

RunFrame ==
    /\ Finish("run_frame", <<>>, run_frame)
    /\ NoBuffers

enable_device_callbacks ==
    Returned(Invocation("EnableDeviceCallbacks", <<>>, <<>>, <<>>), <<>>)

EnableDeviceCallbacks ==
    /\ Finish("enable_device_callbacks", <<>>, enable_device_callbacks)
    /\ NoBuffers

get_controller_for_gamepad_index(index, answer) ==
    Returned(Invocation("GetControllerForGamepadIndex", <<index>>, <<>>, answer),
             answer)

GetControllerForGamepadIndex ==
    \E index \in 0..MaxGamepadIndex, answer \in HandlesOrNone :
        /\ Finish("get_controller_for_gamepad_index", <<index>>,
                  get_controller_for_gamepad_index(index, answer))
        /\ NoBuffers

activate_action_set_handle(input_handle, action_set_handle) ==
    Returned(Invocation("ActivateActionSet",
                        <<input_handle, action_set_handle>>, <<>>, <<>>), <<>>)

ActivateActionSetHandle ==
    \E input_handle \in Handles, action_set_handle \in Handles :
        /\ Finish("activate_action_set_handle",
                  <<input_handle, action_set_handle>>,
                  activate_action_set_handle(input_handle, action_set_handle))
        /\ NoBuffers

activate_action_set_layer_handle(input_handle, action_set_handle) ==
    Returned(Invocation("ActivateActionSetLayer",
                        <<input_handle, action_set_handle>>, <<>>, <<>>), <<>>)

ActivateActionSetLayerHandle ==
    \E input_handle \in Handles, action_set_handle \in Handles :
        /\ Finish("activate_action_set_layer_handle",
                  <<input_handle, action_set_handle>>,
                  activate_action_set_layer_handle(input_handle,
                                                   action_set_handle))
        /\ NoBuffers

deactivate_action_set_layer_handle(input_handle, action_set_handle) ==
    Returned(Invocation("DeactivateActionSetLayer",
                        <<input_handle, action_set_handle>>, <<>>, <<>>), <<>>)

DeactivateActionSetLayerHandle ==
    \E input_handle \in Handles, action_set_handle \in Handles :
        /\ Finish("deactivate_action_set_layer_handle",
                  <<input_handle, action_set_handle>>,
                  deactivate_action_set_layer_handle(input_handle,
                                                     action_set_handle))
        /\ NoBuffers

deactivate_all_action_set_layers(input_handle) ==
    Returned(Invocation("DeactivateAllActionSetLayers", <<input_handle>>,
                        <<>>, <<>>), <<>>)

DeactivateAllActionSetLayers ==
    \E input_handle \in Handles :
        /\ Finish("deactivate_all_action_set_layers", <<input_handle>>,
                  deactivate_all_action_set_layers(input_handle))
        /\ NoBuffers

\* InputDigitalActionData_t; the all-false value is the "no data" answer.
DigitalActionData == [bState : BOOLEAN, bActive : BOOLEAN]

get_digital_action_data(input_handle, action_handle, answer) ==
    Returned(Invocation("GetDigitalActionData",
                        <<input_handle, action_handle>>, <<>>, answer), answer)

GetDigitalActionData ==
    \E input_handle \in Handles, action_handle \in Handles,
       answer \in DigitalActionData :
        /\ Finish("get_digital_action_data", <<input_handle, action_handle>>,
                  get_digital_action_data(input_handle, action_handle, answer))
        /\ NoBuffers

\* InputAnalogActionData_t; the all-zero value is the "no data" answer.
AnalogActionData == [eMode : 0..1, x : 0..1, y : 0..1, bActive : BOOLEAN]

get_analog_action_data(input_handle, action_handle, answer) ==
    Returned(Invocation("GetAnalogActionData",
                        <<input_handle, action_handle>>, <<>>, answer), answer)

GetAnalogActionData ==
    \E input_handle \in Handles, action_handle \in Handles,
       answer \in AnalogActionData :
        /\ Finish("get_analog_action_data", <<input_handle, action_handle>>,
                  get_analog_action_data(input_handle, action_handle, answer))
        /\ NoBuffers

\* InputMotionData_t, one component per group of fields.
MotionData == [rotQuat : 0..1, posAccel : 0..1, rotVel : 0..1]

get_motion_data(input_handle, answer) ==
    Returned(Invocation("GetMotionData", <<input_handle>>, <<>>, answer), answer)

GetMotionData ==
    \E input_handle \in Handles, answer \in MotionData :
        /\ Finish("get_motion_data", <<input_handle>>,
                  get_motion_data(input_handle, answer))
        /\ NoBuffers

show_binding_panel(input_handle, answer) ==
    Returned(Invocation("ShowBindingPanel", <<input_handle>>, <<>>, answer),
             answer)

ShowBindingPanel ==
    \E input_handle \in Handles, answer \in BOOLEAN :
        /\ Finish("show_binding_panel", <<input_handle>>,
                  show_binding_panel(input_handle, answer))
        /\ NoBuffers

shutdown == Returned(Invocation("Shutdown", <<>>, <<>>, <<>>), <<>>)

Shutdown ==
    /\ Finish("shutdown", <<>>, shutdown)
    /\ NoBuffers

\* --------------------------------------------------------------- strings
\* A &str is its bytes; 0 is the nul byte.
Strs == SeqsUpTo(0..MaxByte, MaxStrLen)

\* Faulty variant: the string is cut at its first nul, as C would read it.
CString_new_truncating(s) ==
    LET nuls == {i \in 1..Len(s) : s[i] = 0}
        cut  == IF nuls = {} THEN Len(s)
                ELSE (CHOOSE i \in nuls : \A j \in nuls : i <= j) - 1
    IN [is_err |-> FALSE, bytes |-> Append(SubSeq(s, 1, cut), 0)]

\* CString::new: an interior nul is an error, otherwise the bytes followed
\* by the terminating nul.
CString_new(s) ==
    IF \E i \in 1..Len(s) : s[i] = 0
    THEN [is_err |-> TRUE, bytes |-> <<>>]
    ELSE [is_err |-> FALSE, bytes |-> Append(s, 0)]

set_input_action_manifest_file_path(path, answer) ==
    LET c == CString_new(path)
    IN IF c.is_err THEN Panicked
       ELSE Returned(Invocation("SetInputActionManifestFilePath", <<c.bytes>>,
                                <<>>, answer), answer)

SetInputActionManifestFilePath ==
    \E path \in Strs, answer \in BOOLEAN :
        /\ Finish("set_input_action_manifest_file_path", <<path>>,
                  set_input_action_manifest_file_path(path, answer))
        /\ NoBuffers

get_action_set_handle(action_set_name, answer) ==
    LET name == CString_new(action_set_name)
    IN IF name.is_err THEN Panicked
       ELSE Returned(Invocation("GetActionSetHandle", <<name.bytes>>,
                                <<>>, answer), answer)

GetActionSetHandle ==
    \E action_set_name \in Strs, answer \in HandlesOrNone :
        /\ Finish("get_action_set_handle", <<action_set_name>>,
                  get_action_set_handle(action_set_name, answer))
        /\ NoBuffers

get_digital_action_handle(action_name, answer) ==
    LET name == CString_new(action_name)
    IN IF name.is_err THEN Panicked
       ELSE Returned(Invocation("GetDigitalActionHandle", <<name.bytes>>,
                                <<>>, answer), answer)

GetDigitalActionHandle ==
    \E action_name \in Strs, answer \in HandlesOrNone :
        /\ Finish("get_digital_action_handle", <<action_name>>,
                  get_digital_action_handle(action_name, answer))
        /\ NoBuffers

get_analog_action_handle(action_name, answer) ==
    LET name == CString_new(action_name)
    IN IF name.is_err THEN Panicked
       ELSE Returned(Invocation("GetAnalogActionHandle", <<name.bytes>>,
                                <<>>, answer), answer)

GetAnalogActionHandle ==
    \E action_name \in Strs, answer \in HandlesOrNone :
        /\ Finish("get_analog_action_handle", <<action_name>>,
                  get_analog_action_handle(action_name, answer))
        /\ NoBuffers

\* The bytes of a native C string before its terminating nul: an ASCII
\* letter, or a byte that is never valid in UTF-8.
NativeCStrings == SeqsUpTo({65, 255}, MaxStrLen)

\* CStr::to_string_lossy().into_owned(): the characters of the text, each
\* invalid byte replaced by U+FFFD.
to_string_lossy(bytes) ==
    [i \in 1..Len(bytes) |-> IF bytes[i] < 128 THEN bytes[i] ELSE 65533]

Origins == 1..MaxOrigin

get_glyph_for_action_origin(action_origin, glyph_path) ==
    Returned(Invocation("GetGlyphForActionOrigin_Legacy", <<action_origin>>,
                        <<>>, glyph_path), to_string_lossy(glyph_path))

GetGlyphForActionOrigin ==
    \E action_origin \in Origins, glyph_path \in NativeCStrings :
        /\ Finish("get_glyph_for_action_origin", <<action_origin>>,
                  get_glyph_for_action_origin(action_origin, glyph_path))
        /\ NoBuffers

get_string_for_action_origin(action_origin, name_path) ==
    Returned(Invocation("GetStringForActionOrigin", <<action_origin>>,
                        <<>>, name_path), to_string_lossy(name_path))

GetStringForActionOrigin ==
    \E action_origin \in Origins, name_path \in NativeCStrings :
        /\ Finish("get_string_for_action_origin", <<action_origin>>,
                  get_string_for_action_origin(action_origin, name_path))
        /\ NoBuffers

\* ------------------------------------------------ get_input_type_for_handle
\* sys::ESteamInputType
ESteamInputType ==
    {"k_ESteamInputType_Unknown",
     "k_ESteamInputType_SteamController",
     "k_ESteamInputType_XBox360Controller",
     "k_ESteamInputType_XBoxOneController",
     "k_ESteamInputType_GenericGamepad",
     "k_ESteamInputType_PS4Controller",
     "k_ESteamInputType_AppleMFiController",
     "k_ESteamInputType_AndroidController",
     "k_ESteamInputType_SwitchJoyConPair",
     "k_ESteamInputType_SwitchJoyConSingle",
     "k_ESteamInputType_SwitchProController",
     "k_ESteamInputType_MobileTouch",
     "k_ESteamInputType_PS3Controller",
     "k_ESteamInputType_PS5Controller",
     "k_ESteamInputType_SteamDeckController",
     "k_ESteamInputType_Count",
     "k_ESteamInputType_MaximumPossibleValue"}

\* enum InputType
InputType ==
    {"Unknown", "SteamController", "XBox360Controller", "XBoxOneController",
     "GenericGamepad", "PS4Controller", "AppleMFiController",
     "AndroidController", "SwitchJoyConPair", "SwitchJoyConSingle",
     "SwitchProController", "MobileTouch", "PS3Controller", "PS5Controller",
     "SteamDeckController"}

\* Faulty variant: the PS5 arm yields the PS4 variant.
match_input_type_ps5_as_ps4(input_type) ==
    CASE input_type = "k_ESteamInputType_SteamController" -> "SteamController"
      [] input_type = "k_ESteamInputType_GenericGamepad" -> "GenericGamepad"
      [] input_type = "k_ESteamInputType_PS4Controller" -> "PS4Controller"
      [] input_type = "k_ESteamInputType_SwitchJoyConPair" -> "SwitchJoyConPair"
      [] input_type = "k_ESteamInputType_MobileTouch" -> "MobileTouch"
      [] input_type = "k_ESteamInputType_PS3Controller" -> "PS3Controller"
      [] input_type = "k_ESteamInputType_PS5Controller" -> "PS4Controller"
      [] input_type = "k_ESteamInputType_XBox360Controller" ->
            "XBox360Controller"
      [] input_type = "k_ESteamInputType_XBoxOneController" ->
            "XBoxOneController"
      [] input_type = "k_ESteamInputType_AppleMFiController" ->
            "AppleMFiController"
      [] input_type = "k_ESteamInputType_AndroidController" ->
            "AndroidController"
      [] input_type = "k_ESteamInputType_SwitchJoyConSingle" ->
            "SwitchJoyConSingle"
      [] input_type = "k_ESteamInputType_SwitchProController" ->
            "SwitchProController"
      [] input_type = "k_ESteamInputType_SteamDeckController" ->
            "SteamDeckController"
      [] OTHER -> "Unknown"

\* the match of get_input_type_for_handle, arm by arm
match_input_type(input_type) ==
    CASE input_type = "k_ESteamInputType_SteamController" -> "SteamController"
      [] input_type = "k_ESteamInputType_GenericGamepad" -> "GenericGamepad"
      [] input_type = "k_ESteamInputType_PS4Controller" -> "PS4Controller"
      [] input_type = "k_ESteamInputType_SwitchJoyConPair" -> "SwitchJoyConPair"
      [] input_type = "k_ESteamInputType_MobileTouch" -> "MobileTouch"
      [] input_type = "k_ESteamInputType_PS3Controller" -> "PS3Controller"
      [] input_type = "k_ESteamInputType_PS5Controller" -> "PS5Controller"
      [] input_type = "k_ESteamInputType_XBox360Controller" ->
            "XBox360Controller"
      [] input_type = "k_ESteamInputType_XBoxOneController" ->
            "XBoxOneController"
      [] input_type = "k_ESteamInputType_AppleMFiController" ->
            "AppleMFiController"
      [] input_type = "k_ESteamInputType_AndroidController" ->
            "AndroidController"
      [] input_type = "k_ESteamInputType_SwitchJoyConSingle" ->
            "SwitchJoyConSingle"
      [] input_type = "k_ESteamInputType_SwitchProController" ->
            "SwitchProController"
      [] input_type = "k_ESteamInputType_SteamDeckController" ->
            "SteamDeckController"
      [] OTHER -> "Unknown"

get_input_type_for_handle(input_handle, input_type) ==
    Returned(Invocation("GetInputTypeForHandle", <<input_handle>>, <<>>,
                        input_type), match_input_type(input_type))

GetInputTypeForHandle ==
    \E input_handle \in Handles, input_type \in ESteamInputType :
        /\ Finish("get_input_type_for_handle", <<input_handle>>,
                  get_input_type_for_handle(input_handle, input_type))
        /\ NoBuffers

\* ------------------------------------------------------------- origins
\* `written` is what the native entry point writes to originsOut; it
\* returns their number, at most STEAM_INPUT_MAX_ORIGINS.
get_digital_action_origins(input_handle, action_set_handle, digital_action_handle, written) ==
    LET origins == with_capacity(STEAM_INPUT_MAX_ORIGINS)
        len     == Len(written)
        filled  == [origins EXCEPT !.mem = NativeWrite(origins.mem, written)]
    IN Returned(Invocation("GetDigitalActionOrigins",
                           <<input_handle, action_set_handle,
                             digital_action_handle, Len(origins.mem)>>,
                           written, len),
                elements(set_len(filled, len)))

GetDigitalActionOrigins ==
    \E input_handle \in Handles, action_set_handle \in Handles,
       digital_action_handle \in Handles,
       written \in SeqsUpTo(Origins, STEAM_INPUT_MAX_ORIGINS) :
        /\ Finish("get_digital_action_origins",
                  <<input_handle, action_set_handle, digital_action_handle>>,
                  get_digital_action_origins(input_handle, action_set_handle,
                                             digital_action_handle, written))
        /\ NoBuffers

get_analog_action_origins(input_handle, action_set_handle, analog_action_handle, written) ==
    LET origins == with_capacity(STEAM_INPUT_MAX_ORIGINS)
        len     == Len(written)
        filled  == [origins EXCEPT !.mem = NativeWrite(origins.mem, written)]
    IN Returned(Invocation("GetAnalogActionOrigins",
                           <<input_handle, action_set_handle,
                             analog_action_handle, Len(origins.mem)>>,
                           written, len),
                elements(set_len(filled, len)))

GetAnalogActionOrigins ==
    \E input_handle \in Handles, action_set_handle \in Handles,
       analog_action_handle \in Handles,
       written \in SeqsUpTo(Origins, STEAM_INPUT_MAX_ORIGINS) :
        /\ Finish("get_analog_action_origins",
                  <<input_handle, action_set_handle, analog_action_handle>>,
                  get_analog_action_origins(input_handle, action_set_handle,
                                            analog_action_handle, written))
        /\ NoBuffers

\* ------------------------------------------------------ callback records
CALLBACK_BASE_ID == 2800

DeviceConnected_ID == CALLBACK_BASE_ID + 1

\* Faulty variant: the identifier of DeviceConnected is reused.
DeviceDisconnected_ID_colliding == CALLBACK_BASE_ID + 1

DeviceDisconnected_ID == CALLBACK_BASE_ID + 2

ConfigurationLoaded_ID == CALLBACK_BASE_ID + 3

\* The native record layouts.
SteamInputDeviceConnected_t == [m_ulConnectedDeviceHandle : Handles]

SteamInputDeviceDisconnected_t == [m_ulDisconnectedDeviceHandle : Handles]

SteamInputConfigurationLoaded_t ==
    [m_unAppID            : 1..MaxAppId,
     m_ulDeviceHandle     : Handles,
     m_ulMappingCreator   : 1..MaxCreator,
     m_unMajorRevision    : 0..MaxRevision,
     m_unMinorRevision    : 0..MaxRevision,
     m_bUsesSteamInputAPI : BOOLEAN,
     m_bUsesGamepadAPI    : BOOLEAN]

\* from_raw: the record decoded, and the buffer as the decode leaves it.
DeviceConnected_from_raw(val) ==
    [record |-> [handle |-> val.m_ulConnectedDeviceHandle], raw |-> val]

\* Faulty variant: the decode clears the handle in the buffer.
DeviceDisconnected_from_raw_zeroing(val) ==
    [record |-> [handle |-> val.m_ulDisconnectedDeviceHandle],
     raw    |-> [val EXCEPT !.m_ulDisconnectedDeviceHandle = 0]]

DeviceDisconnected_from_raw(val) ==
    [record |-> [handle |-> val.m_ulDisconnectedDeviceHandle], raw |-> val]

\* Faulty variant: the two revision numbers are exchanged.
ConfigurationLoaded_from_raw_swapped(val) ==
    [record |-> [app_id               |-> val.m_unAppID,
                 handle               |-> val.m_ulDeviceHandle,
                 major_revision       |-> val.m_unMinorRevision,
                 minor_revision       |-> val.m_unMajorRevision,
                 uses_steam_input_api |-> val.m_bUsesSteamInputAPI,
                 uses_gamepad_api     |-> val.m_bUsesGamepadAPI],
     raw |-> val]

ConfigurationLoaded_from_raw(val) ==
    [record |-> [app_id               |-> val.m_unAppID,
                 handle               |-> val.m_ulDeviceHandle,
                 major_revision       |-> val.m_unMajorRevision,
                 minor_revision       |-> val.m_unMinorRevision,
                 uses_steam_input_api |-> val.m_bUsesSteamInputAPI,
                 uses_gamepad_api     |-> val.m_bUsesGamepadAPI],
     raw |-> val]

\* The identifier a record type registers under.
Callback_ID(kind) ==
    CASE kind = "DeviceConnected" -> DeviceConnected_ID
      [] kind = "DeviceDisconnected" -> DeviceDisconnected_ID
      [] kind = "ConfigurationLoaded" -> ConfigurationLoaded_ID

CallbackKinds == {"DeviceConnected", "DeviceDisconnected", "ConfigurationLoaded"}

\* The identifier the native layer stamps on a record of each layout, and
\* the buffers of that layout.
k_iCallback(kind) ==
    CASE kind = "DeviceConnected" -> 2801
      [] kind = "DeviceDisconnected" -> 2802
      [] kind = "ConfigurationLoaded" -> 2803

Layout(kind) ==
    CASE kind = "DeviceConnected" -> SteamInputDeviceConnected_t
      [] kind = "DeviceDisconnected" -> SteamInputDeviceDisconnected_t
      [] kind = "ConfigurationLoaded" -> SteamInputConfigurationLoaded_t

\* The dispatch registry: the record types registered under an identifier.
Route(id) == {kind \in CallbackKinds : Callback_ID(kind) = id}

\* The pump delivers one native buffer, stamped with its identifier.
Deliver ==
    \E kind \in CallbackKinds :
        \E data \in Layout(kind) :
            /\ op # "deliver"
            /\ op' = "deliver"
            /\ arg' = <<>>
            /\ outcome' = "none"
            /\ ret' = <<>>
            /\ native' = <<>>
            /\ controllers' = <<>>
            /\ raw' = [id |-> k_iCallback(kind), kind |-> kind, data |-> data]
            /\ delivered' = raw'

\* The registry hands the delivered buffer to the decoder registered under
\* its identifier.
Decoded(kind, r) ==
    /\ op = "deliver"
    /\ kind \in Route(raw.id)
    /\ op' = kind
    /\ arg' = <<>>
    /\ outcome' = "decoded"
    /\ ret' = r.record
    /\ native' = <<>>
    /\ raw' = [raw EXCEPT !.data = r.raw]
    /\ UNCHANGED <<controllers, delivered>>

DeviceConnectedFromRaw ==
    Decoded("DeviceConnected", DeviceConnected_from_raw(raw.data))

DeviceDisconnectedFromRaw ==
    Decoded("DeviceDisconnected", DeviceDisconnected_from_raw(raw.data))

ConfigurationLoadedFromRaw ==
    Decoded("ConfigurationLoaded", ConfigurationLoaded_from_raw(raw.data))

Init ==
    /\ op = "none"
    /\ arg = <<>>
    /\ outcome = "none"
    /\ ret = <<>>
    /\ native = <<>>
    /\ controllers = <<>>
    /\ raw = NoBuffer
    /\ delivered = NoBuffer

Next ==
    \/ InitCall
    \/ RunFrame
    \/ EnableDeviceCallbacks
    \/ GetConnectedControllers
    \/ GetConnectedControllersSlice
    \/ GetControllerForGamepadIndex
    \/ ActivateActionSetHandle
    \/ ActivateActionSetLayerHandle
    \/ DeactivateActionSetLayerHandle
    \/ DeactivateAllActionSetLayers
    \/ SetInputActionManifestFilePath
    \/ GetActionSetHandle
    \/ GetDigitalActionHandle
    \/ GetAnalogActionHandle
    \/ GetGlyphForActionOrigin
    \/ GetStringForActionOrigin
    \/ GetDigitalActionData
    \/ GetAnalogActionData
    \/ GetMotionData
    \/ ShowBindingPanel
    \/ Shutdown
    \/ GetInputTypeForHandle
    \/ GetDigitalActionOrigins
    \/ GetAnalogActionOrigins
    \/ Deliver
    \/ DeviceConnectedFromRaw
    \/ DeviceDisconnectedFromRaw
    \/ ConfigurationLoadedFromRaw

Spec == Init /\ [][Next]_vars

\* C1: get_connected_controllers returns exactly the n handles the native
\* call wrote, in order, with no trailing zero-filled entries.
C1_ReturnsExactlyConnected ==
    (op = "get_connected_controllers" /\ outcome = "returned") =>
        /\ Len(ret) = native[1].result
        /\ ret = native[1].out

\* C2: an undersized buffer fails the assertion before the native call (no
\* native invocation, buffer untouched); a buffer of at least
\* STEAM_INPUT_MAX_COUNT slots reaches the native call and gets its count.
C2_SlicePrecondition ==
    op = "get_connected_controllers_slice" =>
        /\ Len(arg) < STEAM_INPUT_MAX_COUNT =>
              /\ outcome = "panicked"
              /\ native = <<>>
              /\ controllers = arg
        /\ Len(arg) >= STEAM_INPUT_MAX_COUNT =>
              /\ outcome = "returned"
              /\ Len(native) = 1
              /\ native[1].fn = "GetConnectedControllers"
              /\ ret = native[1].result

C2_Witness ==
    /\ op = "get_connected_controllers_slice"
    /\ Len(arg) = STEAM_INPUT_MAX_COUNT - 1
    /\ outcome = "panicked"

\* The variant each known native device type is documented to map to.
KnownInputTypes ==
    {<<"k_ESteamInputType_SteamController", "SteamController">>,
     <<"k_ESteamInputType_XBox360Controller", "XBox360Controller">>,
     <<"k_ESteamInputType_XBoxOneController", "XBoxOneController">>,
     <<"k_ESteamInputType_GenericGamepad", "GenericGamepad">>,
     <<"k_ESteamInputType_PS4Controller", "PS4Controller">>,
     <<"k_ESteamInputType_AppleMFiController", "AppleMFiController">>,
     <<"k_ESteamInputType_AndroidController", "AndroidController">>,
     <<"k_ESteamInputType_SwitchJoyConPair", "SwitchJoyConPair">>,
     <<"k_ESteamInputType_SwitchJoyConSingle", "SwitchJoyConSingle">>,
     <<"k_ESteamInputType_SwitchProController", "SwitchProController">>,
     <<"k_ESteamInputType_MobileTouch", "MobileTouch">>,
     <<"k_ESteamInputType_PS3Controller", "PS3Controller">>,
     <<"k_ESteamInputType_PS5Controller", "PS5Controller">>,
     <<"k_ESteamInputType_SteamDeckController", "SteamDeckController">>}

\* C3: get_input_type_for_handle returns the matching variant for each of
\* the fourteen known native device types, distinct known types give
\* distinct variants, and every other native value gives Unknown without
\* failing.
C3_InputTypeMapping ==
    op = "get_input_type_for_handle" =>
        LET t == native[1].result
        IN /\ outcome = "returned"
           /\ ret \in InputType
           /\ \A p \in KnownInputTypes : p[1] = t => ret = p[2]
           /\ \A p \in KnownInputTypes :
                 p[1] # t => match_input_type(p[1]) # ret
           /\ (\A p \in KnownInputTypes : p[1] # t) => ret = "Unknown"

C3_Witness ==
    /\ op = "get_input_type_for_handle"
    /\ native[1].result = "k_ESteamInputType_PS5Controller"
    /\ ret = "PS5Controller"

StringOps ==
    {<<"set_input_action_manifest_file_path", "SetInputActionManifestFilePath">>,
     <<"get_action_set_handle", "GetActionSetHandle">>,
     <<"get_digital_action_handle", "GetDigitalActionHandle">>,
     <<"get_analog_action_handle", "GetAnalogActionHandle">>}

\* C4: a string-taking operation panics without reaching its native entry
\* point when the argument contains a nul byte; otherwise it invokes that
\* entry point once with the string followed by one nul, and returns the
\* native result unchanged.
C4_StringMarshalling ==
    \A o \in StringOps :
        op = o[1] =>
            LET s == arg[1]
            IN IF \E i \in 1..Len(s) : s[i] = 0
               THEN /\ outcome = "panicked"
                    /\ native = <<>>
               ELSE /\ outcome = "returned"
                    /\ Len(native) = 1
                    /\ native[1].fn = o[2]
                    /\ native[1].args = <<s \o <<0>>>>
                    /\ ret = native[1].result

C4_Witness ==
    /\ op = "get_digital_action_handle"
    /\ arg = <<<<1, 0>>>>
    /\ outcome = "panicked"

\* C5: decoding a ConfigurationLoaded buffer passes app_id, handle, both
\* revisions and both flags through unchanged and drops the creator
\* identifier: buffers differing only in the creator decode to the same
\* record, and the buffer is left as it was delivered.
C5_ConfigurationLoadedDecode ==
    op = "ConfigurationLoaded" =>
        /\ ret.app_id = delivered.data.m_unAppID
        /\ ret.handle = delivered.data.m_ulDeviceHandle
        /\ ret.major_revision = delivered.data.m_unMajorRevision
        /\ ret.minor_revision = delivered.data.m_unMinorRevision
        /\ ret.uses_steam_input_api = delivered.data.m_bUsesSteamInputAPI
        /\ ret.uses_gamepad_api = delivered.data.m_bUsesGamepadAPI
        /\ DOMAIN ret = {"app_id", "handle", "major_revision", "minor_revision",
                         "uses_steam_input_api", "uses_gamepad_api"}
        /\ \A creator \in 1..MaxCreator :
              ConfigurationLoaded_from_raw(
                  [delivered.data EXCEPT !.m_ulMappingCreator = creator]).record
              = ret
        /\ raw = delivered

C5_Witness ==
    /\ op = "ConfigurationLoaded"
    /\ delivered.data.m_unMajorRevision # delivered.data.m_unMinorRevision
    /\ delivered.data.m_ulMappingCreator = MaxCreator
    /\ ret.major_revision = delivered.data.m_unMajorRevision

\* C6: decoding a DeviceConnected (DeviceDisconnected) buffer yields the
\* record whose handle is the buffer's connected (disconnected) device
\* handle, untransformed, and leaves the buffer as it was delivered.
C6_DeviceHandleDecode ==
    /\ op = "DeviceConnected" =>
          /\ ret = [handle |-> delivered.data.m_ulConnectedDeviceHandle]
          /\ raw = delivered
    /\ op = "DeviceDisconnected" =>
          /\ ret = [handle |-> delivered.data.m_ulDisconnectedDeviceHandle]
          /\ raw = delivered

C6_Witness ==
    /\ op = "DeviceDisconnected"
    /\ delivered.data.m_ulDisconnectedDeviceHandle = MaxHandle
    /\ ret.handle = MaxHandle

\* C8: the three record types are registered under 2801, 2802 and 2803
\* (base 2800 plus 1, 2, 3), pairwise distinct, so every delivered buffer
\* is routed to exactly one decoder, the one of its own layout.
C8_CallbackIds ==
    /\ CALLBACK_BASE_ID = 2800
    /\ DeviceConnected_ID = CALLBACK_BASE_ID + 1
    /\ DeviceDisconnected_ID = CALLBACK_BASE_ID + 2
    /\ ConfigurationLoaded_ID = CALLBACK_BASE_ID + 3
    /\ Cardinality({Callback_ID(k) : k \in CallbackKinds}) = 3
    /\ op = "deliver" => Route(raw.id) = {raw.kind}
    /\ outcome = "decoded" => op = delivered.kind

C8_Witness ==
    /\ outcome = "decoded"
    /\ op = "ConfigurationLoaded"
    /\ delivered.id = 2803

WrapperOps ==
    {"init", "run_frame", "enable_device_callbacks",
     "get_connected_controllers", "get_connected_controllers_slice",
     "get_controller_for_gamepad_index",
     "set_input_action_manifest_file_path", "get_action_set_handle",
     "get_input_type_for_handle", "get_glyph_for_action_origin",
     "get_string_for_action_origin", "activate_action_set_handle",
     "activate_action_set_layer_handle", "deactivate_action_set_layer_handle",
     "deactivate_all_action_set_layers", "get_digital_action_handle",
     "get_analog_action_handle", "get_digital_action_data",
     "get_analog_action_data", "get_digital_action_origins",
     "get_analog_action_origins", "get_motion_data", "show_binding_panel",
     "shutdown"}

\* The calls whose result is the native result itself.
PassThroughOps ==
    {"init", "get_connected_controllers_slice",
     "get_controller_for_gamepad_index",
     "set_input_action_manifest_file_path", "get_action_set_handle",
     "get_digital_action_handle", "get_analog_action_handle",
     "get_digital_action_data", "get_analog_action_data", "get_motion_data",
     "show_binding_panel"}

OriginOps ==
    {<<"get_digital_action_origins", "GetDigitalActionOrigins">>,
     <<"get_analog_action_origins", "GetAnalogActionOrigins">>}

\* C10: the origins returned are as many as the native call reported, at
\* most STEAM_INPUT_MAX_ORIGINS (the capacity handed to the native call),
\* and are exactly the origins the native call wrote: none is a slot the
\* native layer left unwritten.
C10_OriginsAreWritten ==
    \A o \in OriginOps :
        op = o[1] =>
            /\ outcome = "returned"
            /\ native[1].fn = o[2]
            /\ native[1].args[4] = STEAM_INPUT_MAX_ORIGINS
            /\ Len(ret) = native[1].result
            /\ Len(ret) <= STEAM_INPUT_MAX_ORIGINS
            /\ ret = native[1].out
            /\ \A i \in 1..Len(ret) : ret[i] # Uninit

C10_Witness ==
    /\ op = "get_analog_action_origins"
    /\ native[1].result = 1
    /\ Len(ret) = 1
====
